---- MODULE Spec2Model ----
(***************************************************************************)
(* Model of src/data/get_top_pr.py: the curation run of main(), which      *)
(* walks TARGET_REPOS, reads page 0 of each repository's closed pull       *)
(* requests, filters the review comments of the merged ones and appends    *)
(* one JSON line per accepted comment to OUTPUT_FILE.                      *)
(*                                                                         *)
(* The GitHub host is the environment: every call that reaches it          *)
(* (get_repo, get_page, pr.merged, pr.user, the comment iteration) either  *)
(* returns a value drawn from a small set or raises.                       *)
(***************************************************************************)
EXTENDS Integers, Sequences, FiniteSets, TLC

(***************************************************************************)
(* Bounds of the model.                                                    *)
(***************************************************************************)
\* Most closed pull requests a repository holds.
MaxPRs == 2
\* Most review comments the host yields for one pull request.
MaxComments == 2

(***************************************************************************)
(* Program constants.                                                      *)
(***************************************************************************)
\* The first two of the four configured targets (lines 12-17).
TARGET_REPOS == << "rust-lang/rust", "microsoft/vscode" >>
MIN_REACTIONS == 2
\* The literal of `len(comment.body) > 50`.
MinBodyLen == 50
OUTPUT_FILE == "training_data.jsonl"

(***************************************************************************)
(* Python values.  An attribute that may be None is a record that says so; *)
(* a str is the sequence of its characters.                                *)
(***************************************************************************)
PyNone == [none |-> TRUE, s |-> << >>]
PyStr(s) == [none |-> FALSE, s |-> s]
\* Python truthiness of an optional str: None and "" are falsy.
Truthy(v) == (~v.none) /\ Len(v.s) > 0
\* len(v) of a str.
PyLen(v) == Len(v.s)
\* A str of n characters.
Chars(n) == [i \in 1..n |-> "x"]

Min(a, b) == IF a <= b THEN a ELSE b
Max(a, b) == IF a >= b THEN a ELSE b

\* s[:n] of a list, n >= 0.
Slice(s, n) == SubSeq(s, 1, Min(n, Len(s)))

(***************************************************************************)
(* What the host can hold.                                                 *)
(***************************************************************************)
Users == {"alice", "bob"}
Tokens == {PyNone, PyStr(<< >>), PyStr(<<"t">>)}
Bodies == {PyNone} \cup {PyStr(Chars(n)) : n \in {0, 1, MinBodyLen, MinBodyLen + 1}}
DiffHunks == {PyNone, PyStr(<< >>), PyStr(<<"@">>)}
ReactionCounts == 0..(MIN_REACTIONS + 1)
Comments ==
  [body : Bodies, user : Users, total_count : ReactionCounts,
   plus_one : ReactionCounts, diff_hunk : DiffHunks]
\* The comments the host yields in a run whose diff hunks are all h: the
\* bodies and reaction counts on either side of the two thresholds.
HostComments(h) ==
  {c \in Comments :
     /\ c.diff_hunk = h
     /\ c.total_count \in {MIN_REACTIONS - 1, MIN_REACTIONS}
     /\ c.plus_one \in {MIN_REACTIONS - 1, MIN_REACTIONS}}
\* The kinds of exception the handlers tell apart: GithubException with
\* status 404, GithubException with another status, any other Exception.
Raised == {"github404", "github", "exception"}
\* The page sizes of the host and the values of PRS_TO_CHECK_PER_REPO that
\* are tried (30 and 500 in the program: a cap above the page size).
PageSizes == {1, 2}
Caps == {1, 2}
\* The lines that fill the write buffer of the output file (the buffer is
\* io.DEFAULT_BUFFER_SIZE bytes: several lines).
ChunkLines == 2

\* The closed pull requests of a repository that has n of them, most
\* recently updated first; a pull request is named by its rank.
ClosedPulls(n) == [i \in 1..n |-> i]
\* PaginatedList.get_page(k) with pages of `size` elements.
get_page(all, size, k) ==
  SubSeq(all, k * size + 1, Min((k + 1) * size, Len(all)))

VARIABLES
  pc,                   \* position of main()
  github_token,         \* os.getenv("GITHUB_PAT")
  g,                    \* the client: "none", "ok" or "failed"
  f,                    \* the output file: "unopened", "open", "closed"
  out,                  \* the lines written to f, in order
  flushed,              \* how many lines of out have reached the file
  total_examples_found,
  repoIdx,              \* index in TARGET_REPOS of the target in hand
  prs,                  \* the list the pull-request loop iterates
  prIdx,                \* index in prs of the pull request in hand
  merged,               \* pr.merged of the pull request in hand
  pr_author,
  log,                  \* the last message printed
  report,               \* the final summary
  \* configuration and host, fixed for a run
  max_to_check,         \* PRS_TO_CHECK_PER_REPO
  per_page,             \* page size of the host
  hunk,                 \* the diff hunk the host's comments carry
  \* history of the run
  nClosed,              \* closed pull requests of the target in hand
  visited,              \* pull requests visited in the target in hand
  fates,                \* how each visit ended, parallel to visited
  nYielded,             \* comments yielded for the pull request in hand
  written,              \* per line of out from that pull request: the
                        \* position, among them, of the comment it was made from
  delayed,              \* line 116 has run since the last pull request
  resolved,             \* per target: "pending", "ok", "failed"
  src,                  \* per line of out: the comment it was made from
  golden,               \* origins of the qualifying comments processed
  worked,               \* a repository, pull request or comment was requested
  \* the filter on its own
  comment,
  verdict

vars ==
  << pc, github_token, g, f, out, flushed, total_examples_found, repoIdx, prs,
     prIdx, merged, pr_author, log, report, max_to_check, per_page, hunk,
     nClosed, visited, fates, nYielded, written, delayed, resolved, src,
     golden, worked, comment, verdict >>

config == << max_to_check, per_page, hunk >>
harness == << comment, verdict >>
crawl == << nClosed, visited, fates >>
sink == << f, out, flushed, total_examples_found, src, golden >>

\* What the file holds: the lines that have left the buffer of f.
disk == SubSeq(out, 1, flushed)

system_prompt == PyStr(<<"S">>)

Message(kind, n) == [msg |-> kind, n |-> n]

(***************************************************************************)
(* create_training_example and json.dumps.                                 *)
(***************************************************************************)
create_training_example_swapped(sp, user_content, assistant_content) ==
  [messages |->
     << [role |-> "system", content |-> sp],
        [role |-> "user", content |-> assistant_content],
        [role |-> "assistant", content |-> user_content] >>]

create_training_example(sp, user_content, assistant_content) ==
  [messages |->
     << [role |-> "system", content |-> sp],
        [role |-> "user", content |-> user_content],
        [role |-> "assistant", content |-> assistant_content] >>]

\* json.dumps of an optional str: None becomes the literal null, a str
\* becomes a quoted string.
json_value(v) ==
  IF v.none THEN [lit |-> "null", text |-> << >>]
  ELSE [lit |-> "string", text |-> v.s]

\* json.dumps(example) + "\n": one object, one line.
json_line(example) ==
  [messages |->
     [i \in 1..Len(example.messages) |->
        [role |-> example.messages[i].role,
         content |-> json_value(example.messages[i].content)]],
   eol |-> TRUE]

(***************************************************************************)
(* The quality filter of lines 83-89, as Python evaluates it: `and` stops  *)
(* at the first falsy operand, so len() is never taken of None.            *)
(***************************************************************************)
is_high_quality_no_author(c, author) ==
  IF ~Truthy(c.body) THEN FALSE
  ELSE IF ~(PyLen(c.body) > MinBodyLen) THEN FALSE
  ELSE (c.total_count >= MIN_REACTIONS \/ c.plus_one >= MIN_REACTIONS)

is_high_quality_ge_len(c, author) ==
  IF ~Truthy(c.body) THEN FALSE
  ELSE IF ~(PyLen(c.body) >= MinBodyLen) THEN FALSE
  ELSE IF ~(c.user # author) THEN FALSE
  ELSE (c.total_count >= MIN_REACTIONS \/ c.plus_one >= MIN_REACTIONS)

is_high_quality(c, author) ==
  IF ~Truthy(c.body) THEN FALSE
  ELSE IF ~(PyLen(c.body) > MinBodyLen) THEN FALSE
  ELSE IF ~(c.user # author) THEN FALSE
  ELSE (c.total_count >= MIN_REACTIONS \/ c.plus_one >= MIN_REACTIONS)

(***************************************************************************)
(* The acceptance rule as the specification words it, used to record what  *)
(* a run should have emitted.                                              *)
(***************************************************************************)
Weight(c) == Max(c.total_count, c.plus_one)
BodyLength(c) == IF c.body.none THEN 0 ELSE Len(c.body.s)
Gold(c, author) ==
  /\ ~c.body.none
  /\ c.body.s # << >>
  /\ BodyLength(c) > 50
  /\ c.user # author
  /\ Weight(c) >= 2

NoComment ==
  [body |-> PyNone, user |-> "alice", total_count |-> 0, plus_one |-> 0,
   diff_hunk |-> PyNone]

(***************************************************************************)
(* Initial state: main() has been entered.                                 *)
(***************************************************************************)
InitRun ==
  /\ github_token = PyNone
  /\ g = "none"
  /\ f = "unopened"
  /\ out = << >>
  /\ flushed = 0
  /\ total_examples_found = 0
  /\ repoIdx = 0
  /\ prs = << >>
  /\ prIdx = 0
  /\ merged = FALSE
  /\ log = Message("none", 0)
  /\ report = [printed |-> FALSE, count |-> 0, path |-> ""]
  /\ nClosed = 0
  /\ visited = << >>
  /\ fates = << >>
  /\ nYielded = 0
  /\ written = << >>
  /\ delayed = FALSE
  /\ resolved = [r \in 1..Len(TARGET_REPOS) |-> "pending"]
  /\ src = << >>
  /\ golden = << >>
  /\ worked = FALSE
  /\ verdict = "unset"

Init ==
  /\ InitRun
  /\ pc = "start"
  /\ pr_author = "alice"
  /\ comment = NoComment
  /\ max_to_check \in Caps
  /\ per_page \in PageSizes
  /\ hunk \in DiffHunks

(***************************************************************************)
(* The two exception handlers.  An exception raised outside the inner try  *)
(* of lines 78-113 reaches the handlers of lines 118-124, which end the    *)
(* iteration of the target in hand; one raised inside it reaches the       *)
(* handlers of lines 107-113, after which the loop body goes on to the     *)
(* sleep of line 116.                                                      *)
(***************************************************************************)
RepoExcept_reraise(kind) ==
  /\ log' = Message("traceback", repoIdx)
  /\ pc' = IF kind = "exception" THEN "crashed" ELSE "for_repo"

RepoExcept_abort(kind) ==
  /\ log' =
       Message(CASE kind = "github404" -> "repo_not_found"
                 [] kind = "github" -> "repo_api_error"
                 [] OTHER -> "repo_error", repoIdx)
  /\ pc' = "summary"

RepoExcept_retry(kind) ==
  /\ log' =
       Message(CASE kind = "github404" -> "repo_not_found"
                 [] kind = "github" -> "repo_api_error"
                 [] OTHER -> "repo_error", repoIdx)
  /\ pc' = "get_repo"

RepoExcept(kind) ==
  /\ log' =
       Message(CASE kind = "github404" -> "repo_not_found"
                 [] kind = "github" -> "repo_api_error"
                 [] OTHER -> "repo_error", repoIdx)
  /\ pc' = "for_repo"

PRExcept_propagate(kind) ==
  IF kind = "github404"
  THEN RepoExcept(kind)
  ELSE /\ log' =
            Message(CASE kind = "github" -> "pr_api_error"
                      [] OTHER -> "pr_error", prs[prIdx])
       /\ pc' = "sleep"

PRExcept(kind) ==
  /\ log' =
       Message(CASE kind = "github404" -> "skipping_pr"
                 [] kind = "github" -> "pr_api_error"
                 [] OTHER -> "pr_error", prs[prIdx])
  /\ pc' = "sleep"

SetFate(x) == fates' = [fates EXCEPT ![Len(fates)] = x]

\* The locals of the loop body (lines 73-76) are dead once the body is left:
\* each is assigned again before it is next read.
DropLocals ==
  /\ merged' = FALSE
  /\ pr_author' = "alice"
  /\ nYielded' = 0
  /\ written' = << >>

(***************************************************************************)
(* Lines 44-57: the credential and the authentication.                     *)
(***************************************************************************)
LoadToken_noreturn ==
  /\ pc = "start"
  /\ \E t \in Tokens :
       /\ github_token' = t
       /\ pc' = "auth"
       /\ log' = IF Truthy(t) THEN log ELSE Message("fatal_no_token", 0)
  /\ UNCHANGED << g, repoIdx, prs, prIdx, merged, pr_author, report, nYielded,
                  written, resolved, worked, sink, crawl, config, harness,
                  delayed >>

LoadToken ==
  /\ pc = "start"
  /\ \E t \in Tokens :
       /\ github_token' = t
       /\ IF Truthy(t)
          THEN pc' = "auth" /\ log' = log
          ELSE pc' = "aborted" /\ log' = Message("fatal_no_token", 0)
  /\ UNCHANGED << g, repoIdx, prs, prIdx, merged, pr_author, report, nYielded,
                  written, resolved, worked, sink, crawl, config, harness,
                  delayed >>

Authenticate ==
  /\ pc = "auth"
  /\ \E ok \in BOOLEAN :
       IF ok
       THEN g' = "ok" /\ log' = Message("authenticated", 0) /\ pc' = "open"
       ELSE g' = "failed" /\ log' = Message("auth_error", 0) /\ pc' = "aborted"
  /\ UNCHANGED << github_token, repoIdx, prs, prIdx, merged, pr_author,
                  report, nYielded, written, resolved, worked, sink, crawl,
                  config, harness, delayed >>

(***************************************************************************)
(* Lines 61-62: open(OUTPUT_FILE, "w") truncates the file.                 *)
(***************************************************************************)
OpenOutput ==
  /\ pc = "open"
  /\ f' = "open"
  /\ out' = << >>
  /\ flushed' = 0
  /\ src' = << >>
  /\ total_examples_found' = 0
  /\ pc' = "for_repo"
  /\ UNCHANGED << github_token, g, repoIdx, prs, prIdx, merged, pr_author,
                  log, report, nYielded, written, resolved, worked, golden,
                  crawl, config, harness, delayed >>

(***************************************************************************)
(* Line 63: the loop over TARGET_REPOS; leaving it leaves the with block,  *)
(* which closes the file.                                                  *)
(***************************************************************************)
NextRepo ==
  /\ pc = "for_repo"
  /\ repoIdx < Len(TARGET_REPOS)
  /\ repoIdx' = repoIdx + 1
  /\ prs' = << >>
  /\ prIdx' = 0
  /\ nClosed' = 0
  /\ visited' = << >>
  /\ fates' = << >>
  /\ delayed' = FALSE
  /\ pc' = "get_repo"
  /\ UNCHANGED << github_token, g, merged, pr_author, log, report, nYielded,
                  written, resolved, worked, sink, config, harness >>

CloseOutput_leak ==
  /\ pc = "for_repo"
  /\ repoIdx = Len(TARGET_REPOS)
  /\ pc' = "summary"
  /\ UNCHANGED << github_token, g, repoIdx, prs, prIdx, merged, pr_author,
                  log, report, nYielded, written, resolved, worked, sink,
                  crawl, config, harness, delayed >>

CloseOutput ==
  /\ pc = "for_repo"
  /\ repoIdx = Len(TARGET_REPOS)
  /\ f' = "closed"
  /\ flushed' = Len(out)
  /\ pc' = "summary"
  /\ UNCHANGED << github_token, g, out, total_examples_found, src, golden,
                  repoIdx, prs, prIdx, merged, pr_author, log, report,
                  nYielded, written, resolved, worked, crawl, config, harness,
                  delayed >>

(***************************************************************************)
(* Lines 65-66: g.get_repo(repo_name).                                     *)
(***************************************************************************)
GetRepo ==
  /\ pc = "get_repo"
  /\ worked' = TRUE
  /\ resolved' = [resolved EXCEPT ![repoIdx] = "ok"]
  /\ log' = Message("scraping", repoIdx)
  /\ pc' = "get_pulls"
  /\ UNCHANGED << github_token, g, repoIdx, prs, prIdx, merged, pr_author,
                  report, nYielded, written, sink, crawl, config, harness,
                  delayed >>

GetRepoFails ==
  /\ pc = "get_repo"
  /\ worked' = TRUE
  /\ resolved' = [resolved EXCEPT ![repoIdx] = "failed"]
  /\ \E kind \in Raised : RepoExcept(kind)
  /\ UNCHANGED << github_token, g, repoIdx, prs, prIdx, merged, pr_author,
                  report, nYielded, written, sink, crawl, config, harness,
                  delayed >>

(***************************************************************************)
(* Lines 69-72: get_pulls builds a lazy list and asks the host nothing;    *)
(* get_page(0) fetches the first page, which [:PRS_TO_CHECK_PER_REPO]      *)
(* then cuts.  No later page is ever requested.                            *)
(***************************************************************************)
PullsToScan_nocap(n) == get_page(ClosedPulls(n), per_page, 0)

PullsToScan(n) == Slice(get_page(ClosedPulls(n), per_page, 0), max_to_check)

GetPulls ==
  /\ pc = "get_pulls"
  /\ \E n \in 0..MaxPRs :
       /\ nClosed' = n
       /\ prs' = PullsToScan(n)
  /\ prIdx' = 0
  /\ pc' = "for_pr"
  /\ UNCHANGED << github_token, g, repoIdx, merged, pr_author, log, report,
                  nYielded, written, resolved, worked, visited, fates, sink,
                  config, harness, delayed >>

GetPullsFails ==
  /\ pc = "get_pulls"
  /\ \E kind \in Raised : RepoExcept(kind)
  /\ UNCHANGED << github_token, g, repoIdx, prs, prIdx, merged, pr_author,
                  report, nYielded, written, resolved, worked, sink, crawl,
                  config, harness, delayed >>

(***************************************************************************)
(* Line 72: the loop over the pull requests.                               *)
(***************************************************************************)
NextPull ==
  /\ pc = "for_pr"
  /\ prIdx < Len(prs)
  /\ prIdx' = prIdx + 1
  /\ visited' = Append(visited, prs[prIdx + 1])
  /\ fates' = Append(fates, "visiting")
  /\ nYielded' = 0
  /\ written' = << >>
  /\ delayed' = FALSE
  /\ pc' = "check_merged"
  /\ UNCHANGED << github_token, g, repoIdx, prs, merged, pr_author, log,
                  report, resolved, worked, nClosed, sink, config, harness >>

EndPulls ==
  /\ pc = "for_pr"
  /\ prIdx = Len(prs)
  /\ pc' = "for_repo"
  /\ UNCHANGED << github_token, g, repoIdx, prs, prIdx, merged, pr_author,
                  log, report, nYielded, written, resolved, worked, sink,
                  crawl, config, harness, delayed >>

(***************************************************************************)
(* Lines 73-76: pr.merged and pr.user.login are read outside the inner     *)
(* try.  A pull request of a list page carries no merged field, so the     *)
(* read asks the host for the pull request and can raise.                  *)
(***************************************************************************)
CheckMerged_ignore ==
  /\ pc = "check_merged"
  /\ \E m \in BOOLEAN : merged' = m
  /\ pc' = "get_author"
  /\ UNCHANGED << github_token, g, repoIdx, prs, prIdx, pr_author, log,
                  report, nYielded, written, resolved, worked, nClosed,
                  visited, fates, sink, config, harness, delayed >>

CheckMerged ==
  /\ pc = "check_merged"
  /\ \E m \in BOOLEAN :
       /\ merged' = m
       /\ IF m
          THEN pc' = "get_author" /\ fates' = fates
          ELSE pc' = "for_pr" /\ SetFate("unmerged")
  /\ UNCHANGED << github_token, g, repoIdx, prs, prIdx, pr_author, log,
                  report, nYielded, written, resolved, worked, nClosed,
                  visited, sink, config, harness, delayed >>

ReadMergedFails ==
  /\ pc = "check_merged"
  /\ SetFate("raised")
  /\ \E kind \in Raised : RepoExcept(kind)
  /\ DropLocals
  /\ UNCHANGED << github_token, g, repoIdx, prs, prIdx, report, resolved,
                  worked, nClosed, visited, sink, config, harness, delayed >>

GetAuthor ==
  /\ pc = "get_author"
  /\ \E a \in Users : pr_author' = a
  /\ pc' = "for_comment"
  /\ UNCHANGED << github_token, g, repoIdx, prs, prIdx, merged, log, report,
                  nYielded, written, resolved, worked, sink, crawl, config,
                  harness, delayed >>

ReadAuthorFails ==
  /\ pc = "get_author"
  /\ SetFate("raised")
  /\ \E kind \in Raised : RepoExcept(kind)
  /\ DropLocals
  /\ UNCHANGED << github_token, g, repoIdx, prs, prIdx, report, resolved,
                  worked, nClosed, visited, sink, config, harness, delayed >>

(***************************************************************************)
(* Lines 80-105: the iteration over pr.get_review_comments(), a lazy list  *)
(* that asks the host as it is consumed.  One step is one turn of the      *)
(* loop: the host yields a comment, the filter judges it, and an accepted  *)
(* comment is written and counted.                                         *)
(***************************************************************************)
\* f.write on a file opened with default buffering: the text stays in the
\* buffer of f until ChunkLines lines are pending, and reaches the file then
\* (or when f is closed).  Of n lines written d are in the file before the
\* write; the result is how many are in it after.
Buffered(n, d) == IF n - d >= ChunkLines THEN n ELSE d

\* The pull request in hand, as a record of out is traced to it.
Origin == [repo |-> repoIdx, pr |-> prs[prIdx]]

\* What a line of out was made from.
Source(c) ==
  [repo |-> repoIdx, pr |-> prs[prIdx], merged |-> merged,
   has_body |-> (~c.body.none) /\ c.body.s # << >>,
   long_body |-> BodyLength(c) > 50,
   by_other |-> c.user # pr_author,
   reacted |-> Weight(c) >= MIN_REACTIONS]

NextComment_prepend ==
  /\ pc = "for_comment"
  /\ nYielded < MaxComments
  /\ \E c \in HostComments(hunk) :
       /\ IF is_high_quality(c, pr_author)
          THEN /\ out' =
                    << json_line(create_training_example(
                                   system_prompt, c.diff_hunk, c.body)) >>
                      \o out
               /\ flushed' = Buffered(Len(out'), flushed)
               /\ total_examples_found' = total_examples_found + 1
               /\ src' = << Source(c) >> \o src
               /\ written' = << nYielded + 1 >> \o written
          ELSE UNCHANGED << out, flushed, total_examples_found, src, written >>
       /\ golden' = IF Gold(c, pr_author) THEN Append(golden, Origin) ELSE golden
  /\ nYielded' = nYielded + 1
  /\ UNCHANGED << pc, github_token, g, f, repoIdx, prs, prIdx, merged,
                  pr_author, log, report, resolved, worked, crawl, config,
                  harness, delayed >>

NextComment ==
  /\ pc = "for_comment"
  /\ nYielded < MaxComments
  /\ \E c \in HostComments(hunk) :
       /\ IF is_high_quality(c, pr_author)
          THEN /\ out' =
                    Append(out,
                           json_line(create_training_example(
                                       system_prompt, c.diff_hunk, c.body)))
               /\ flushed' = Buffered(Len(out'), flushed)
               /\ total_examples_found' = total_examples_found + 1
               /\ src' = Append(src, Source(c))
               /\ written' = Append(written, nYielded + 1)
          ELSE UNCHANGED << out, flushed, total_examples_found, src, written >>
       /\ golden' = IF Gold(c, pr_author) THEN Append(golden, Origin) ELSE golden
  /\ nYielded' = nYielded + 1
  /\ UNCHANGED << pc, github_token, g, f, repoIdx, prs, prIdx, merged,
                  pr_author, log, report, resolved, worked, crawl, config,
                  harness, delayed >>

\* The list is exhausted: the inner try ends without an exception.
EndComments ==
  /\ pc = "for_comment"
  /\ SetFate("done")
  /\ pc' = "sleep"
  /\ DropLocals
  /\ UNCHANGED << github_token, g, repoIdx, prs, prIdx, log, report, resolved,
                  worked, nClosed, visited, sink, config, harness, delayed >>

CommentsFail_rollback ==
  /\ pc = "for_comment"
  /\ \E kind \in Raised : /\ PRExcept(kind)
       /\ SetFate(IF kind = "github404" THEN "notfound" ELSE "failed")
  /\ out' = SubSeq(out, 1, Len(out) - Len(written))
  /\ src' = SubSeq(src, 1, Len(src) - Len(written))
  /\ flushed' = Min(flushed, Len(out'))
  /\ total_examples_found' = total_examples_found - Len(written)
  /\ DropLocals
  /\ UNCHANGED << github_token, g, repoIdx, prs, prIdx, report, resolved,
                  worked, nClosed, visited, f, golden, config, harness,
                  delayed >>

\* Fetching the comments (the first page or a later one) raises.
CommentsFail ==
  /\ pc = "for_comment"
  /\ \E kind \in Raised : /\ PRExcept(kind)
       /\ SetFate(IF kind = "github404" THEN "notfound" ELSE "failed")
  /\ DropLocals
  /\ UNCHANGED << github_token, g, repoIdx, prs, prIdx, report, resolved,
                  worked, nClosed, visited, sink, config, harness, delayed >>

\* Reading a field of a yielded comment raises (comment.user is None for a
\* deleted account, so comment.user.login is an AttributeError).
CommentFieldFails ==
  /\ pc = "for_comment"
  /\ nYielded < MaxComments
  /\ PRExcept("exception")
  /\ SetFate("failed")
  /\ DropLocals
  /\ UNCHANGED << github_token, g, repoIdx, prs, prIdx, report, resolved,
                  worked, nClosed, visited, sink, config, harness, delayed >>

WriteFails_counted ==
  /\ pc = "for_comment"
  /\ nYielded < MaxComments
  /\ \E c \in HostComments(hunk) :
       is_high_quality(c, pr_author)
  /\ total_examples_found' = total_examples_found + 1
  /\ PRExcept("exception")
  /\ SetFate("failed")
  /\ DropLocals
  /\ UNCHANGED << github_token, g, repoIdx, prs, prIdx, report, resolved,
                  worked, nClosed, visited, f, out, flushed, src, golden,
                  config, harness, delayed >>

\* f.write raises for an accepted comment: nothing is counted.
WriteFails ==
  /\ pc = "for_comment"
  /\ nYielded < MaxComments
  /\ \E c \in HostComments(hunk) :
       is_high_quality(c, pr_author)
  /\ PRExcept("exception")
  /\ SetFate("failed")
  /\ DropLocals
  /\ UNCHANGED << github_token, g, repoIdx, prs, prIdx, report, resolved,
                  worked, nClosed, visited, sink, config, harness, delayed >>

(***************************************************************************)
(* Line 116: time.sleep(0.1), the last statement of the loop body.         *)
(***************************************************************************)
Sleep_stuck ==
  /\ pc = "sleep"
  /\ pc' = "for_comment"
  /\ UNCHANGED << github_token, g, repoIdx, prs, prIdx, merged, pr_author,
                  log, report, nYielded, written, resolved, worked, sink,
                  crawl, config, harness, delayed >>

Sleep ==
  /\ pc = "sleep"
  /\ pc' = "for_pr"
  /\ delayed' = TRUE
  /\ UNCHANGED << github_token, g, repoIdx, prs, prIdx, merged, pr_author,
                  log, report, nYielded, written, resolved, worked, sink,
                  crawl, config, harness >>

(***************************************************************************)
(* Lines 126-128: the final summary.                                       *)
(***************************************************************************)
Summary ==
  /\ pc = "summary"
  /\ report' =
       [printed |-> TRUE, count |-> total_examples_found, path |-> OUTPUT_FILE]
  /\ log' = Message("complete", total_examples_found)
  /\ pc' = "done"
  /\ UNCHANGED << github_token, g, repoIdx, prs, prIdx, merged, pr_author,
                  nYielded, written, resolved, worked, sink, crawl, config,
                  harness, delayed >>

Next ==
  \/ LoadToken \/ Authenticate \/ OpenOutput
  \/ NextRepo \/ CloseOutput \/ GetRepo \/ GetRepoFails
  \/ GetPulls \/ GetPullsFails \/ NextPull \/ EndPulls
  \/ CheckMerged \/ ReadMergedFails \/ GetAuthor \/ ReadAuthorFails
  \/ NextComment \/ EndComments \/ CommentsFail \/ CommentFieldFails
  \/ WriteFails \/ Sleep \/ Summary

Spec == Init /\ [][Next]_vars

\* Every call returns or raises and every statement completes: the single
\* thread of main() keeps taking steps until it returns.
FairSpec == Spec /\ WF_vars(Next)

(***************************************************************************)
(* The filter on its own: a comment and a pull-request author are drawn,   *)
(* and the expression of lines 83-89 is evaluated once.                    *)
(***************************************************************************)
InitFilter ==
  /\ InitRun
  /\ pc = "filter"
  /\ comment \in Comments
  /\ pr_author \in Users
  /\ max_to_check = 1
  /\ per_page = 1
  /\ hunk = PyNone

ApplyFilter ==
  /\ pc = "filter"
  /\ verdict' = IF is_high_quality(comment, pr_author) THEN "accept" ELSE "reject"
  /\ pc' = "filtered"
  /\ UNCHANGED << github_token, g, repoIdx, prs, prIdx, merged, pr_author,
                  log, report, nYielded, written, resolved, worked, sink,
                  crawl, config, comment, delayed >>

SpecFilter == InitFilter /\ [][ApplyFilter]_vars

(***************************************************************************)
(* One turn of the comment loop on its own: the run is inside the inner    *)
(* try for the first pull request of the first target, a merged one, the   *)
(* host yields the drawn comment, and lines 83-105 run once for it.        *)
(***************************************************************************)
InitRecord ==
  /\ pc = "extract"
  /\ comment \in Comments
  /\ pr_author \in Users
  /\ github_token = PyStr(<<"t">>)
  /\ g = "ok"
  /\ f = "open"
  /\ out = << >>
  /\ flushed = 0
  /\ total_examples_found = 0
  /\ repoIdx = 1
  /\ prs = << 1 >>
  /\ prIdx = 1
  /\ merged = TRUE
  /\ log = Message("scraping", 1)
  /\ report = [printed |-> FALSE, count |-> 0, path |-> ""]
  /\ max_to_check = 1
  /\ per_page = 1
  /\ hunk = comment.diff_hunk
  /\ nClosed = 1
  /\ visited = << 1 >>
  /\ fates = << "visiting" >>
  /\ nYielded = 0
  /\ written = << >>
  /\ delayed = FALSE
  /\ resolved = [r \in 1..Len(TARGET_REPOS) |-> IF r = 1 THEN "ok" ELSE "pending"]
  /\ src = << >>
  /\ golden = << >>
  /\ worked = TRUE
  /\ verdict = "unset"

ExtractOne ==
  /\ pc = "extract"
  /\ IF is_high_quality(comment, pr_author)
     THEN /\ out' =
               Append(out,
                      json_line(create_training_example(
                                  system_prompt, comment.diff_hunk,
                                  comment.body)))
          /\ flushed' = Buffered(Len(out'), flushed)
          /\ total_examples_found' = total_examples_found + 1
          /\ src' = Append(src, Source(comment))
          /\ written' = Append(written, nYielded + 1)
          /\ verdict' = "accept"
     ELSE /\ UNCHANGED << out, flushed, total_examples_found, src, written >>
          /\ verdict' = "reject"
  /\ golden' =
       IF Gold(comment, pr_author) THEN Append(golden, Origin) ELSE golden
  /\ nYielded' = nYielded + 1
  /\ pc' = "extracted"
  /\ UNCHANGED << github_token, g, f, repoIdx, prs, prIdx, merged,
                  pr_author, log, report, resolved, worked, crawl, config,
                  comment, delayed >>

SpecRecord == InitRecord /\ [][ExtractOne]_vars

(***************************************************************************)
(* Properties.                                                             *)
(***************************************************************************)
Targets == 1..Len(TARGET_REPOS)
\* The pull request each line of out came from.
SrcOrigins == [i \in DOMAIN src |-> [repo |-> src[i].repo, pr |-> src[i].pr]]
\* Lines of out made from pull request p of target r, and from target r.
RecordsFrom(r, p) ==
  Cardinality({i \in DOMAIN src : src[i].repo = r /\ src[i].pr = p})
RecordsOf(r) == Cardinality({i \in DOMAIN src : src[i].repo = r})
\* Qualifying comments processed without error in pull request p of target r.
GoldenFrom(r, p) ==
  Cardinality({i \in DOMAIN golden : golden[i].repo = r /\ golden[i].pr = p})

\* C1: the filter accepts a comment exactly when its body is present and
\* non-empty, longer than 50 characters, written by someone other than the
\* pull request's author, and max(total, plus-one) is at least 2; a body of
\* 51 characters with weight 2 passes, a body of 50 or a weight of 1 fails.
C1_FilterIsGoldRule ==
  pc = "filtered" =>
    /\ (verdict = "accept") <=> Gold(comment, pr_author)
    /\ BodyLength(comment) = 50 => verdict = "reject"
    /\ Weight(comment) = 1 => verdict = "reject"
    /\ (BodyLength(comment) = 51 /\ Weight(comment) = 2
          /\ comment.user # pr_author) => verdict = "accept"

C1_Witness ==
  /\ pc = "filtered"
  /\ verdict = "accept"
  /\ BodyLength(comment) = 51
  /\ Weight(comment) = 2
  /\ comment.total_count < 2

\* C2: at every moment of a run, every line of the output was made from a
\* comment of a merged pull request, with a non-empty body longer than 50
\* characters, written by someone other than the pull request's author and
\* with reaction weight at least MIN_REACTIONS, whatever has failed so far.
C2_OutputIsGold ==
  /\ Len(src) = Len(out)
  /\ \A i \in DOMAIN src :
       /\ src[i].merged
       /\ src[i].has_body
       /\ src[i].long_body
       /\ src[i].by_other
       /\ src[i].reacted

C2_Witness ==
  /\ Len(out) >= 2
  /\ resolved[1] = "ok"
  /\ repoIdx = 2
  /\ \E p \in DOMAIN fates : fates[p] \in {"failed", "notfound", "unmerged"}
  /\ RecordsOf(2) >= 1

\* C3: when the loop over a target's pull requests has run to its end, the
\* pull requests visited are the first min(max_to_check, N) of the target's
\* N closed pull requests, in order, however small the host's pages are.
C3_CrawlVisitsCapOrAll ==
  (pc = "for_pr" /\ prIdx = Len(prs)) =>
    visited = Slice(ClosedPulls(nClosed), max_to_check)

\* C4: the pull requests visited in a target are never more than
\* max_to_check, never more than the target's closed pull requests, each is
\* one of them, and none is visited twice.
C4_VisitsBounded ==
  /\ Len(visited) <= max_to_check
  /\ Len(visited) <= nClosed
  /\ \A i \in DOMAIN visited : visited[i] \in 1..nClosed
  /\ \A i, j \in DOMAIN visited : i # j => visited[i] # visited[j]

C4_Witness ==
  /\ pc = "for_pr"
  /\ prIdx = Len(prs)
  /\ Len(visited) = max_to_check
  /\ per_page > max_to_check
  /\ nClosed > max_to_check

\* C5: a target whose lookup fails is logged and left behind: the run has
\* tried every target by the time it ends, a failed target has no line in
\* the output and no count, and every qualifying comment processed in the
\* other targets, before or after it, has its line.
C5_FailedTargetIsSkipped ==
  /\ pc \in {"summary", "done"} => \A r \in Targets : resolved[r] # "pending"
  /\ \A r \in Targets : resolved[r] = "failed" => RecordsOf(r) = 0
  /\ (pc = "for_repo" /\ repoIdx >= 1 /\ resolved[repoIdx] = "failed") =>
       /\ log.msg \in {"repo_not_found", "repo_api_error", "repo_error"}
       /\ log.n = repoIdx
  /\ total_examples_found =
       Cardinality({i \in DOMAIN src : resolved[src[i].repo] = "ok"})
  /\ SrcOrigins = golden

C5_Witness ==
  /\ pc = "done"
  /\ resolved[1] = "failed"
  /\ resolved[2] = "ok"
  /\ RecordsOf(2) >= 1
  /\ report.count = RecordsOf(2)

\* C6: an error raised while a pull request is processed stays with that
\* pull request: when a target's iteration ends, every pull request of its
\* list has been visited.
C6_PullErrorsStayLocal ==
  (pc = "for_repo" /\ repoIdx >= 1 /\ resolved[repoIdx] = "ok") =>
    Len(visited) = Len(prs)

\* C7: a not-found while the review comments of one pull request are listed
\* skips that pull request only: the next pull request of the list is
\* visited, every qualifying comment processed in the other pull requests
\* has its line, and when the list is that pull request and one sibling
\* with one qualifying comment, the target yields exactly one line.
C7_NotFoundSkipsOnePull ==
  /\ \A p \in DOMAIN fates :
       (fates[p] = "notfound" /\ p < Len(prs) /\ pc = "for_repo")
         => Len(fates) > p
  /\ \A q \in DOMAIN visited :
       RecordsFrom(repoIdx, visited[q]) = GoldenFrom(repoIdx, visited[q])
  /\ \A p, q \in DOMAIN fates :
       ( /\ pc = "for_repo"
         /\ Len(fates) = 2
         /\ fates[p] = "notfound"
         /\ GoldenFrom(repoIdx, visited[p]) = 0
         /\ fates[q] = "done"
         /\ GoldenFrom(repoIdx, visited[q]) = 1 )
       => RecordsOf(repoIdx) = 1

C7_Witness ==
  /\ pc = "for_repo"
  /\ fates = << "notfound", "done" >>
  /\ GoldenFrom(repoIdx, visited[1]) = 0
  /\ RecordsFrom(repoIdx, visited[2]) = 1
  /\ RecordsOf(repoIdx) = 1

\* C8: a pull request whose merged flag is false gives the output no line
\* and the counter no count: every line comes from a merged pull request,
\* and the counter counts exactly those lines.
C8_UnmergedEmitsNothing ==
  /\ \A i \in DOMAIN src : src[i].merged
  /\ \A p \in DOMAIN fates :
       fates[p] = "unmerged" =>
         /\ RecordsFrom(repoIdx, visited[p]) = 0
         /\ GoldenFrom(repoIdx, visited[p]) = 0
  /\ total_examples_found = Cardinality({i \in DOMAIN src : src[i].merged})

C8_Witness ==
  /\ pc = "for_repo"
  /\ fates = << "unmerged", "done" >>
  /\ RecordsFrom(repoIdx, visited[1]) = 0
  /\ RecordsFrom(repoIdx, visited[2]) >= 1

\* C9: once the credential and the authentication have passed, the run
\* reaches the final summary, which reports the number of lines written and
\* the output path; the number is zero when every target failed.
C9_RunReachesSummary ==
  (pc = "open") ~>
    ( /\ pc = "done"
      /\ report = [printed |-> TRUE, count |-> Len(out), path |-> OUTPUT_FILE]
      /\ (\A r \in Targets : resolved[r] = "failed") => report.count = 0 )

C9_Witness ==
  /\ pc = "done"
  /\ report.printed
  /\ \A r \in Targets : resolved[r] = "failed"
  /\ report.count = 0

\* C10: a missing credential or a failed authentication ends the run before
\* any repository, pull request or comment is asked for and before the
\* output is opened; a run ends nowhere else without trying every target.
C10_OnlyCredentialAborts ==
  /\ pc = "aborted" =>
       /\ ~worked
       /\ f = "unopened"
       /\ out = << >>
       /\ \A r \in Targets : resolved[r] = "pending"
       /\ (~Truthy(github_token)) \/ g = "failed"
  /\ (pc # "start" /\ ~Truthy(github_token)) => pc = "aborted"
  /\ g = "failed" => pc = "aborted"
  /\ (~ENABLED Next) => pc \in {"aborted", "done"}
  /\ pc = "done" => \A r \in Targets : resolved[r] # "pending"

C10_Witness ==
  /\ pc = "aborted"
  /\ Truthy(github_token)
  /\ g = "failed"
  /\ log.msg = "auth_error"

\* The positions of main() inside the with block of lines 61-124.
InWith ==
  {"for_repo", "get_repo", "get_pulls", "for_pr", "check_merged",
   "get_author", "for_comment", "sleep"}

\* C11 as claimed: the output file is acquired as soon as the run starts and
\* is flushed and closed on every exit, the two early returns included, and
\* once it is closed the run is nowhere a record is written.
C11_SinkClosedOnEveryExit ==
  /\ pc # "start" => f # "unopened"
  /\ pc \in {"aborted", "done"} => (f = "closed" /\ disk = out)
  /\ f = "closed" => pc \notin InWith

\* C11: the output file is acquired only once the credential and the
\* authentication have passed; the two early returns happen before that and
\* leave it never opened, a normal completion leaves it
\* closed with every line written in the file; no exit leaves it open, and
\* once it is closed the run is nowhere a record is written.
C11_SinkNeverLeftOpen ==
  /\ f = "open" <=> pc \in InWith
  /\ pc \in {"start", "auth", "aborted", "open"} =>
       (f = "unopened" /\ out = << >> /\ disk = << >>)
  /\ pc \in {"summary", "done"} => (f = "closed" /\ disk = out)
  /\ f = "closed" => pc \notin InWith

C11_Witness ==
  /\ pc = "done"
  /\ f = "closed"
  /\ Len(out) = 1
  /\ disk = out

\* C12: whenever the run is interrupted, what the file holds is what
\* survives: it is made of whole record lines only, in the order they were
\* written, and every record the counter has counted is among them.
C12_CountedRecordsArePersisted ==
  /\ \A i \in DOMAIN disk : disk[i].eol /\ Len(disk[i].messages) = 3
  /\ Len(disk) <= Len(out)
  /\ disk = SubSeq(out, 1, Len(disk))
  /\ total_examples_found <= Len(disk)

\* The comment in hand without its diff excerpt, and the JSON string of a
\* text.
Unanchored(c) == [c EXCEPT !.diff_hunk = PyNone]
JsonString(t) == [lit |-> "string", text |-> t]

\* C13: an accepted comment gives exactly one line, the triple system, user,
\* assistant in that order: the system content is the fixed prompt, the user
\* content is the comment's diff excerpt as it came (null when absent, the
\* empty string when empty), the assistant content is the comment's body as
\* it came; whether the excerpt is there never decides acceptance.
C13_RecordIsExactTriple ==
  pc = "extracted" =>
    /\ Gold(Unanchored(comment), pr_author) <=> (Len(out) = 1)
    /\ ~Gold(Unanchored(comment), pr_author) => out = << >>
    /\ Len(out) = 1 =>
         /\ out[1].eol
         /\ Len(out[1].messages) = 3
         /\ out[1].messages[1] =
              [role |-> "system", content |-> JsonString(system_prompt.s)]
         /\ out[1].messages[2].role = "user"
         /\ out[1].messages[2].content =
              IF comment.diff_hunk.none
              THEN [lit |-> "null", text |-> << >>]
              ELSE JsonString(comment.diff_hunk.s)
         /\ out[1].messages[3] =
              [role |-> "assistant", content |-> JsonString(comment.body.s)]

C13_Witness ==
  /\ pc = "extracted"
  /\ Len(out) = 1
  /\ comment.diff_hunk = PyNone
  /\ out[1].messages[2].content.lit = "null"

\* C15: when the loop is about to visit the next pull request of a target,
\* the delay of line 116 has run since the visit of the previous one began,
\* whether that one was merged, unmerged or failed.
C15_DelayBetweenVisits ==
  (pc = "for_pr" /\ prIdx >= 1 /\ prIdx < Len(prs)) => delayed

\* C16: the lines of the output are in traversal order: a line of an earlier
\* target comes before a line of a later one, within a target a line of a
\* pull request listed earlier comes first, within a pull request a line of
\* a comment yielded earlier comes first; and each qualifying comment
\* processed has exactly one line.
C16_OutputInTraversalOrder ==
  /\ Len(src) = Len(out)
  /\ \A i, j \in DOMAIN src :
       i < j =>
         \/ src[i].repo < src[j].repo
         \/ src[i].repo = src[j].repo /\ src[i].pr <= src[j].pr
  /\ \A i, j \in DOMAIN written : i < j => written[i] < written[j]
  /\ pc = "for_comment" =>
       /\ Len(written) = RecordsFrom(repoIdx, prs[prIdx])
       /\ Len(written) = GoldenFrom(repoIdx, prs[prIdx])
       /\ \A k \in DOMAIN written :
            SrcOrigins[Len(src) - Len(written) + k] = Origin
  /\ SrcOrigins = golden

C16_Witness ==
  /\ pc = "for_comment"
  /\ repoIdx = 2
  /\ prIdx = 2
  /\ written = << 1, 2 >>
  /\ RecordsOf(1) >= 1
  /\ RecordsFrom(2, prs[1]) >= 1

\* The phases of the run as the specification names them, and how far along
\* the line INIT, AUTHENTICATING, (OPENING, CRAWLING, EXTRACTING) per
\* target, FINALIZING, DONE a position of main() is.
Phase ==
  CASE pc = "start" -> "INIT"
    [] pc = "auth" -> "AUTHENTICATING"
    [] pc = "get_repo" -> "OPENING"
    [] pc = "get_pulls" -> "CRAWLING"
    [] pc \in {"for_pr", "check_merged", "get_author", "for_comment", "sleep"}
         -> "EXTRACTING"
    [] pc = "summary" -> "FINALIZING"
    [] pc = "done" -> "DONE"
    [] pc = "aborted" -> "ABORTED"
    [] OTHER -> "BETWEEN"
PhaseStep ==
  CASE Phase = "OPENING" -> 1
    [] Phase = "CRAWLING" -> 2
    [] Phase = "EXTRACTING" -> 3
    [] OTHER -> 0
Progress ==
  CASE Phase = "INIT" -> 0
    [] Phase = "AUTHENTICATING" -> 1
    [] pc = "open" -> 2
    [] pc = "for_repo" -> 3 + 4 * repoIdx
    [] PhaseStep > 0 -> 3 + 4 * (repoIdx - 1) + PhaseStep
    [] Phase = "FINALIZING" -> 4 + 4 * Len(TARGET_REPOS)
    [] OTHER -> 5 + 4 * Len(TARGET_REPOS)

\* C17: the run only moves forward along the line of phases: no step takes
\* it back to an earlier phase or an earlier target, the outcome of the
\* authentication is settled once, a target is resolved once and only after
\* the targets before it, a pull request is visited once and its outcome,
\* once settled, stays, and from FINALIZING on nothing is asked of the host
\* and nothing is written.
C17_RunIsLinear ==
  [][ /\ Progress' >= Progress
      /\ (Phase' = Phase /\ Phase \in {"INIT", "AUTHENTICATING"}) => pc' = pc
      /\ g # "none" => g' = g
      /\ repoIdx' \in {repoIdx, repoIdx + 1}
      /\ \A r \in Targets :
           /\ resolved[r] # "pending" => resolved'[r] = resolved[r]
           /\ resolved'[r] # resolved[r] =>
                (r = repoIdx /\ \A q \in 1..(r - 1) : resolved[q] # "pending")
      /\ repoIdx' = repoIdx =>
           /\ prIdx' \in {prIdx, prIdx + 1}
           /\ \/ visited' = visited
              \/ /\ Len(visited') = Len(visited) + 1
                 /\ SubSeq(visited', 1, Len(visited)) = visited
                 /\ \A i \in DOMAIN visited :
                      visited[i] # visited'[Len(visited')]
           /\ \A p \in DOMAIN fates :
                fates[p] # "visiting" => fates'[p] = fates[p]
      /\ Phase \in {"FINALIZING", "DONE", "ABORTED"} =>
           /\ Phase' \in {"DONE", "ABORTED"}
           /\ UNCHANGED << g, f, out, flushed, total_examples_found, repoIdx,
                           prs, prIdx, nYielded, worked, resolved, crawl >>
    ]_vars

C17_Witness ==
  /\ pc = "done"
  /\ resolved = << "failed", "ok" >>
  /\ Len(fates) = 2
  /\ fates[1] \in {"failed", "notfound"}
  /\ fates[2] = "done"

\* C18: the counter is zero until the first record, counts one per line
\* written, and the number the final report gives is the number of lines
\* written in the run, which are then all in the file, whatever targets and
\* pull requests failed.
C18_CounterCountsLines ==
  /\ total_examples_found = Len(out)
  /\ pc \in {"start", "auth", "open"} => total_examples_found = 0
  /\ (pc = "for_repo" /\ repoIdx = 0) => total_examples_found = 0
  /\ pc = "done" =>
       /\ report.count = Len(out)
       /\ report.count = Len(disk)

C18_Witness ==
  /\ pc = "done"
  /\ report.count = 3
  /\ resolved = << "ok", "ok" >>
  /\ RecordsOf(1) = 1
  /\ \E p \in DOMAIN fates : fates[p] = "failed"

\* A failure handled for the pull request in hand has just been logged.
PullJustFailed ==
  /\ pc = "sleep"
  /\ fates[Len(fates)] \in {"failed", "notfound"}

\* C19: within a run the output only grows at its end and the counter never
\* goes down: what was written before a step is a prefix of what is written
\* after it, in the program's view and in the file; a step that handles a
\* failure of a pull request changes neither, so the lines that pull
\* request had already given stay written and counted.
C19_AppendOnly ==
  [][ /\ Len(out') >= Len(out)
      /\ SubSeq(out', 1, Len(out)) = out
      /\ Len(disk') >= Len(disk)
      /\ SubSeq(disk', 1, Len(disk)) = disk
      /\ total_examples_found' >= total_examples_found
      /\ PullJustFailed' =>
           /\ out' = out
           /\ total_examples_found' = total_examples_found
           /\ RecordsFrom(repoIdx, prs[prIdx])' = Len(written)
           /\ total_examples_found' = Len(out')
    ]_vars

C19_Witness ==
  /\ PullJustFailed
  /\ RecordsFrom(repoIdx, prs[prIdx]) = 1
  /\ Len(out) = 3
  /\ total_examples_found = 3

====
